---- MODULE Spec2Model ----
(***************************************************************************)
(* Model of libbeat/template: the template builder (buildBody and the     *)
(* per-Kind normalisation), the Template document assembly, and the two   *)
(* loaders (ESLoader, FileLoader) with the requests they issue.           *)
(*                                                                         *)
(* Documents (common.MapStr) are functions from string keys to values; a  *)
(* value is either a scalar Val(s) or a nested map MapV(m).                *)
(***************************************************************************)
EXTENDS Integers, Sequences, FiniteSets, TLC

VARIABLES
    client,              \* ESLoader.client / FileLoader.client, Nil for a nil client
    clientVersion,       \* what client.GetVersion() answers
    supportsDataStream,  \* ESLoader.supportsDataStream
    pc,                  \* position of the running load call
    op,                  \* entry point of the running call
    config,              \* TemplateConfig argument
    info,                \* beat.Info argument
    fields,              \* fields []byte argument
    tmpl,                \* *Template built by templateBuilder.template
    templateName,        \* templateName local of the ES load methods
    exists,              \* value of the existence check
    body,                \* document built by buildBody, then sent
    requests,            \* client.Request calls of this attempt, in order
    responses,           \* what the client answered to each of them
    writes,              \* FileClient.Write calls of this attempt
    result,              \* value the call returned
    dynamicTemplates,    \* package-level dynamicTemplates
    defaultFields,       \* package-level defaultFields
    compile,             \* the running calls of Template.load, each with its locals
    probes               \* the answers SupportsDataStream has given, per loader

\* the package-level slices, the stepwise compiles and the capability answers
cvars == <<dynamicTemplates, defaultFields, compile, probes>>

vars == <<client, clientVersion, supportsDataStream, pc, op, config, info, fields,
          tmpl, templateName, exists, body, requests, responses, writes, result, cvars>>

----------------------------------------------------------------------------
(* common.MapStr *)

Val(s) == [tag |-> "val", v |-> s]
Num(n) == [tag |-> "num", n |-> n]
ListV(l) == [tag |-> "list", l |-> l]
MapV(m) == [tag |-> "map", m |-> m]
\* a nil map, slice or pointer
Nil == [tag |-> "nil"]
EmptyMap == [k \in {} |-> Val("")]
Has(d, k) == k \in DOMAIN d
Put(d, k, v) == [y \in DOMAIN d \cup {k} |-> IF y = k THEN v ELSE d[y]]
Delete(d, k) == [y \in DOMAIN d \ {k} |-> d[y]]

aliasesKey == "aliases"
composedOfKey == "composed_of"
dataStreamKey == "data_stream"
indexPatternsKey == "index_patterns"
mappingsKey == "mappings"
orderKey == "order"
priorityKey == "priority"
settingsKey == "settings"

indexTemplatePath == "/_index_template/"

KindLegacy == "legacy"
KindIndex == "index"
KindComponent == "component"
Kinds == {KindLegacy, KindIndex, KindComponent}

----------------------------------------------------------------------------
(* common.Version *)

Ver(ma, mi, pa) == [major |-> ma, minor |-> mi, patch |-> pa, valid |-> TRUE]
\* the zero Version: IsValid() is false
NoVersion == [major |-> 0, minor |-> 0, patch |-> 0, valid |-> FALSE]

VersionString(v) == ToString(v.major) \o "." \o ToString(v.minor) \o "." \o ToString(v.patch)

VersionLessThan(a, b) ==
    \/ a.major < b.major
    \/ a.major = b.major /\ a.minor < b.minor
    \/ a.major = b.major /\ a.minor = b.minor /\ a.patch < b.patch

\* LessThanOrEqual(true, &v): a <= v, patch included
VersionLessThanOrEqual(a, v) == ~VersionLessThan(v, a)

\* versions the client reports
Versions ==
    { NoVersion, Ver(5, 6, 0), Ver(6, 0, 1), Ver(6, 6, 2), Ver(6, 7, 0), Ver(6, 7, 2),
      Ver(6, 8, 0), Ver(7, 0, 0), Ver(7, 9, 0) }

minESVersionIndexTemplate == Ver(7, 9, 0)

\* a (value, error) pair returned by a function
Ok(x) == [ok |-> TRUE, val |-> x]
Err(e) == [ok |-> FALSE, err |-> e]

----------------------------------------------------------------------------
(* Template *)

Min(S) == CHOOSE x \in S : \A y \in S : x <= y

\* the event New builds: beat, agent and observer objects with name and version
Event(beatName, bV) ==
    [k \in {"beat.name", "agent.name", "observer.name",
            "beat.version", "agent.version", "observer.version"} |->
        IF k \in {"beat.name", "agent.name", "observer.name"}
        THEN beatName ELSE VersionString(bV)]

\* fmtstr.CompileEvent(toCompile) then Run(event): every %{[key]} is replaced
\* by the event's value; an unclosed reference does not compile, an unknown
\* key does not run.
RECURSIVE formatFrom(_, _, _)
formatFrom(event, s, i) ==
    IF i > Len(s) THEN Ok("")
    ELSE IF i + 2 <= Len(s) /\ SubSeq(s, i, i + 2) = "%{["
    THEN LET closes == {j \in (i + 3)..(Len(s) - 1) : SubSeq(s, j, j + 1) = "]}"}
         IN  IF closes = {} THEN Err("format string does not compile")
             ELSE LET j == Min(closes)
                      key == SubSeq(s, i + 3, j - 1)
                  IN  IF key \notin DOMAIN event THEN Err("key not found in event")
                      ELSE LET rest == formatFrom(event, s, j + 2)
                           IN  IF rest.ok THEN Ok(event[key] \o rest.val) ELSE rest
    ELSE LET rest == formatFrom(event, s, i + 1)
         IN  IF rest.ok THEN Ok(SubSeq(s, i, i) \o rest.val) ELSE rest

formatStr(event, toCompile) == formatFrom(event, toCompile, 1)

\* the ComposedOf loop of New: every element is formatted, the first error wins
RECURSIVE formatAll(_, _)
formatAll(event, cs) ==
    IF cs = <<>> THEN Ok(<<>>)
    ELSE LET fmtd == formatStr(event, Head(cs))
         IN  IF ~fmtd.ok THEN fmtd
             ELSE LET rest == formatAll(event, Tail(cs))
                  IN  IF rest.ok THEN Ok(<<fmtd.val>> \o rest.val) ELSE rest

\* common.NewVersion on the version strings callers pass; Nil when it fails
NewVersion(str) ==
    IF str = "7.9.0" THEN Ver(7, 9, 0)
    ELSE IF str = "8.0.0" THEN Ver(8, 0, 0)
    ELSE Nil

New(beatVersion, beatName, esVersion, cfg, migration) ==
    IF NewVersion(beatVersion) = Nil THEN Err("invalid beat version")
    ELSE
    LET bV == NewVersion(beatVersion)
        name0 == IF cfg.Name = "" THEN beatName \o "-" \o VersionString(bV) ELSE cfg.Name
        pattern0 == IF cfg.Pattern = "" THEN name0 \o "-*" ELSE cfg.Pattern
        event == Event(beatName, bV)
        name == formatStr(event, name0)
        pattern == formatStr(event, pattern0)
        composedOf == formatAll(event, cfg.ComposedOf)
    IN  IF ~name.ok THEN name
        ELSE IF ~pattern.ok THEN pattern
        ELSE IF ~composedOf.ok THEN composedOf
        ELSE Ok([ pattern |-> pattern.val,
                  name |-> name.val,
                  beatVersion |-> bV,
                  esVersion |-> IF ~esVersion.valid THEN bV ELSE esVersion,
                  beatName |-> beatName,
                  config |-> [cfg EXCEPT !.ComposedOf = composedOf.val],
                  migration |-> migration,
                  order |-> cfg.Order,
                  priority |-> cfg.Priority ])

GetName(t) == t.name
GetPattern(t) == t.pattern

\* buildPatternSettings: <<key, value>>
buildPatternSettings(ver, pattern) ==
    IF ver.major < 6 THEN <<"template", Val(pattern)>>
    ELSE <<indexPatternsKey, ListV(<<pattern>>)>>

baseSettings(t) ==
    LET kp == buildPatternSettings(t.esVersion, GetPattern(t))
        m0 == Put(Put(Put(EmptyMap, kp[1], kp[2]), orderKey, Num(t.order)),
                  priorityKey, Num(t.priority))
        m1 == IF Len(t.config.ComposedOf) > 0
              THEN Put(m0, composedOfKey, ListV(t.config.ComposedOf)) ELSE m0
    IN  IF t.config.DataStream # Nil THEN Put(m1, dataStreamKey, t.config.DataStream) ELSE m1

defaultTotalFieldsLimit == 10000
defaultNumberOfRoutingShards == 30

\* common.MapStr.DeepUpdate: nested maps are merged key by key, other values replaced
RECURSIVE DeepUpdate(_, _)
DeepUpdate(d, u) ==
    [k \in DOMAIN d \cup DOMAIN u |->
        IF k \notin DOMAIN u THEN d[k]
        ELSE IF k \in DOMAIN d /\ d[k].tag = "map" /\ u[k].tag = "map"
             THEN MapV(DeepUpdate(d[k].m, u[k].m))
             ELSE u[k]]

\* index settings with the routing shards set from 6.0.0 on
buildIdxSettingsShardsFrom60(ver, userSettings, defFields) ==
    LET s0 == Put(Put(EmptyMap, "refresh_interval", Val("5s")),
                  "mapping", MapV(Put(EmptyMap, "total_fields",
                                      MapV(Put(EmptyMap, "limit", Num(defaultTotalFieldsLimit))))))
        s1 == IF ver.major = 6
              THEN Put(s0, "number_of_routing_shards", Num(defaultNumberOfRoutingShards))
              ELSE s0
        s2 == IF ver.major >= 7
              THEN Put(s1, "query", MapV(Put(EmptyMap, "default_field",
                                             ListV(Append(defFields, "fields.*")))))
              ELSE s1
    IN  IF userSettings = Nil THEN s2 ELSE DeepUpdate(s2, userSettings.m)

\* index settings with query.default_field set from 6.0.0 on
buildIdxSettingsDefaultFieldFrom6(ver, userSettings, defFields) ==
    LET s0 == Put(Put(EmptyMap, "refresh_interval", Val("5s")),
                  "mapping", MapV(Put(EmptyMap, "total_fields",
                                      MapV(Put(EmptyMap, "limit", Num(defaultTotalFieldsLimit))))))
        s1 == IF ~VersionLessThan(ver, Ver(6, 1, 0)) /\ ver.major < 7
              THEN Put(s0, "number_of_routing_shards", Num(defaultNumberOfRoutingShards))
              ELSE s0
        s2 == IF ver.major >= 6
              THEN Put(s1, "query", MapV(Put(EmptyMap, "default_field",
                                             ListV(Append(defFields, "fields.*")))))
              ELSE s1
    IN  IF userSettings = Nil THEN s2 ELSE DeepUpdate(s2, userSettings.m)

\* buildIdxSettings; defFields is the value of the package-level defaultFields it reads
buildIdxSettings(ver, userSettings, defFields) ==
    LET s0 == Put(Put(EmptyMap, "refresh_interval", Val("5s")),
                  "mapping", MapV(Put(EmptyMap, "total_fields",
                                      MapV(Put(EmptyMap, "limit", Num(defaultTotalFieldsLimit))))))
        s1 == IF ~VersionLessThan(ver, Ver(6, 1, 0)) /\ ver.major < 7
              THEN Put(s0, "number_of_routing_shards", Num(defaultNumberOfRoutingShards))
              ELSE s0
        s2 == IF ver.major >= 7
              THEN Put(s1, "query", MapV(Put(EmptyMap, "default_field",
                                             ListV(Append(defFields, "fields.*")))))
              ELSE s1
    IN  IF userSettings = Nil THEN s2 ELSE DeepUpdate(s2, userSettings.m)

buildDynTmpl(ver) ==
    LET str0 == Put(Put(EmptyMap, "ignore_above", Num(1024)), "type", Val("keyword"))
        strMapping == IF ver.major = 2
                      THEN Put(Put(str0, "type", Val("string")), "index", Val("not_analyzed"))
                      ELSE str0
    IN  MapV(Put(EmptyMap, "strings_as_keyword",
                 MapV(Put(Put(EmptyMap, "mapping", MapV(strMapping)),
                          "match_mapping_type", Val("string")))))

\* buildMappings; properties (a MapV), dynTmpls (a ListV) and source may be Nil
buildMappings(beatVersion, esVersion, beatName, properties, dynTmpls, source) ==
    LET m0 == Put(Put(Put(Put(EmptyMap,
                  "_meta", MapV(Put(Put(EmptyMap, "version", Val(VersionString(beatVersion))),
                                    "beat", Val(beatName)))),
                  "date_detection", Val("false")),
                  "dynamic_templates", dynTmpls),
                  "properties", properties)
        m1 == IF source # Nil /\ DOMAIN source.m # {} THEN Put(m0, "_source", source) ELSE m0
        major == esVersion.major
    IN  IF major = 2
        THEN Put(EmptyMap, "_default_",
                 MapV(Put(m1, "_all", MapV(Put(EmptyMap, "norms",
                                               MapV(Put(EmptyMap, "enabled", Val("false"))))))))
        ELSE IF major < 6 THEN Put(EmptyMap, "_default_", MapV(m1))
        ELSE IF major = 6 THEN Put(EmptyMap, "doc", MapV(m1))
        ELSE m1

\* Generate; dynTemplates is its dynamicTemplates argument, defFields the value of
\* the package-level defaultFields that buildIdxSettings reads
Generate(t, properties, dynTemplates, defFields) ==
    LET m == baseSettings(t)
        mp == buildMappings(t.beatVersion, t.esVersion, t.beatName, MapV(properties),
                            ListV(Append(dynTemplates, buildDynTmpl(t.esVersion))),
                            t.config.Settings.Source)
        st == Put(EmptyMap, "index",
                  MapV(buildIdxSettings(t.esVersion, t.config.Settings.Index, defFields)))
    IN  Put(Put(m, mappingsKey, MapV(mp)), settingsKey, MapV(st))

\* mapping.ConcatFields: appended fields must not redefine a key
ConcatFields(a, b) ==
    IF \E i \in DOMAIN a, j \in DOMAIN b : a[i].name = b[j].name
    THEN Err("fields contain a duplicate key")
    ELSE Ok(a \o b)

\* Processor.Process, one field of the walk: r holds the properties filled so
\* far and the values of the package-level dynamicTemplates and defaultFields,
\* to which the field's rule and name are appended
processField(f, r) ==
    [ properties |-> Put(r.properties, f.name, MapV(Put(EmptyMap, "type", Val(f.type)))),
      dynamicTemplates |->
         IF f.type = "object"
         THEN Append(r.dynamicTemplates,
                     MapV(Put(EmptyMap, f.name,
                              MapV(Put(EmptyMap, "path_match", Val(f.name \o ".*"))))))
         ELSE r.dynamicTemplates,
      defaultFields |->
         IF f.type \in {"keyword", "text"}
         THEN Append(r.defaultFields, f.name) ELSE r.defaultFields ]

\* Processor.Process over the whole field list, from empty slices
RECURSIVE Process(_)
Process(fs) ==
    IF fs = <<>>
    THEN [properties |-> EmptyMap, dynamicTemplates |-> <<>>, defaultFields |-> <<>>]
    ELSE processField(fs[Len(fs)], Process(SubSeq(fs, 1, Len(fs) - 1)))

\* Template.load run without interleaving: the globals are reset, filled by
\* Process and read by Generate. Its statements one by one are LoadLock to
\* LoadGenerate below; run in sequence they return this document.
load(t, fs) ==
    LET all == IF Len(t.config.AppendFields) > 0
               THEN ConcatFields(fs, t.config.AppendFields) ELSE Ok(fs)
    IN  IF ~all.ok THEN all
        ELSE LET r == Process(all.val)
             IN  Ok(Generate(t, r.properties, r.dynamicTemplates, r.defaultFields))

Field(n, ty) == [name |-> n, type |-> ty]

\* mapping.LoadFieldsYaml: the fields files on disk
LoadFieldsYaml(file) ==
    IF file = "fields.yml" THEN Ok(<<Field("message", "text"), Field("labels", "object")>>)
    ELSE Err("cannot read fields file")

\* loadYamlByte: the field bytes callers pass
loadYamlByte(data) ==
    IF data = "- key: beat\n  fields:\n  - name: host\n    type: keyword"
    THEN Ok(<<Field("host", "keyword")>>)
    ELSE IF data = "" THEN Ok(<<>>)
    ELSE Err("yaml does not parse")

LoadFile(t, file) ==
    LET fs == LoadFieldsYaml(file) IN IF ~fs.ok THEN fs ELSE load(t, fs.val)

LoadBytes(t, data) ==
    LET fs == loadYamlByte(data) IN IF ~fs.ok THEN fs ELSE load(t, fs.val)

LoadMinimal(t) ==
    LET m == baseSettings(t)
        m1 == IF t.config.Settings.Index # Nil
              THEN Put(m, settingsKey, MapV(Put(EmptyMap, "index", t.config.Settings.Index)))
              ELSE m
    IN  Ok(IF t.config.Settings.Source # Nil
           THEN Put(m1, mappingsKey,
                    MapV(buildMappings(t.beatVersion, t.esVersion, t.beatName, Nil, Nil,
                                       t.config.Settings.Source)))
           ELSE m1)

----------------------------------------------------------------------------
(* templateBuilder: the revision whose buildBody normalises the body per Kind *)

\* template without its check of config.Enabled
templateIgnoringEnabled(cfg, inf, esVersion, migration) ==
    LET t == New(inf.Version, inf.IndexPrefix, esVersion, cfg, migration)
    IN  IF ~t.ok THEN Err("error creating template instance") ELSE t

\* templateBuilder.template: Ok(Nil) is the (nil, nil) of a disabled config
template(cfg, inf, esVersion, migration) ==
    IF ~cfg.Enabled THEN Ok(Nil)
    ELSE LET t == New(inf.Version, inf.IndexPrefix, esVersion, cfg, migration)
         IN  IF ~t.ok THEN Err("error creating template instance") ELSE t

JSONDoc(keys) == [k \in keys |-> Val("json " \o k)]

\* buildBodyFromJSON: Stat, ReadFile and Unmarshal of the files on disk
buildBodyFromJSON(cfg) ==
    LET path == cfg.JSON.Path
    IN  IF path = "legacy.json"
        THEN Ok(JSONDoc({indexPatternsKey, orderKey, settingsKey, mappingsKey}))
        ELSE IF path = "mixed.json"
        THEN Ok(JSONDoc({indexPatternsKey, orderKey, priorityKey, composedOfKey,
                         dataStreamKey, settingsKey, mappingsKey, aliasesKey}))
        ELSE IF path = "index.json"
        THEN Ok(Put(JSONDoc({indexPatternsKey, priorityKey, composedOfKey}), "template",
                    MapV(JSONDoc({settingsKey, mappingsKey}))))
        ELSE IF path = "malformed.json" THEN Err("could not unmarshal json template")
        ELSE Err("error checking json file")

buildBodyFromFile(t, cfg) ==
    LET b == LoadFile(t, cfg.Fields)
    IN  IF ~b.ok THEN Err("error creating template from file") ELSE b

buildBodyFromFields(t, fs) ==
    LET b == LoadBytes(t, fs.data)
    IN  IF ~b.ok THEN Err("error creating template") ELSE b

buildMinimalTemplate(t) ==
    LET b == LoadMinimal(t)
    IN  IF ~b.ok THEN Err("error creating mimimal template") ELSE b

\* the moveTemplate closure of buildBody
moveTemplate(b) ==
    LET present == {k \in {settingsKey, mappingsKey, aliasesKey} : Has(b, k)}
        rest == [k \in DOMAIN b \ present |-> b[k]]
    IN  IF present = {} THEN b
        ELSE Put(rest, "template", MapV([k \in present |-> b[k]]))

\* the deletes shared by case KindLegacy and the fallthrough of KindComponent
deleteIndexOnlyKeys(b) == Delete(Delete(Delete(b, priorityKey), composedOfKey), dataStreamKey)

\* the switch on config.Kind that ends buildBody
normalizeKind(b, kind) ==
    IF kind = KindComponent
    THEN deleteIndexOnlyKeys(moveTemplate(Delete(Delete(b, orderKey), indexPatternsKey)))
    ELSE IF kind = KindLegacy THEN deleteIndexOnlyKeys(b)
    ELSE IF kind = KindIndex THEN moveTemplate(Delete(b, orderKey))
    ELSE b

\* a choice of source that looks at config.Fields before config.JSON
sourceBodyFileFirst(t, cfg, fs) ==
    IF cfg.Fields # "" THEN buildBodyFromFile(t, cfg)
    ELSE IF cfg.JSON.Enabled THEN buildBodyFromJSON(cfg)
    ELSE IF fs = Nil THEN buildMinimalTemplate(t)
    ELSE buildBodyFromFields(t, fs)

\* the choice of the body's source that opens buildBody
sourceBody(t, cfg, fs) ==
    IF cfg.JSON.Enabled THEN buildBodyFromJSON(cfg)
    ELSE IF cfg.Fields # "" THEN buildBodyFromFile(t, cfg)
    ELSE IF fs = Nil THEN buildMinimalTemplate(t)
    ELSE buildBodyFromFields(t, fs)

buildBody(t, cfg, fs) ==
    LET b == sourceBody(t, cfg, fs)
    IN  IF ~b.ok THEN b ELSE Ok(normalizeKind(b.val, cfg.Kind))

\* the other buildBody in the tree: the same choice of source, returned as it is
buildBodyPlain(t, cfg, fs) == sourceBody(t, cfg, fs)

\* esVersionParams for every 6.x from 6.7 on
esVersionParamsFrom67(ver) ==
    IF ver.major = 6 /\ ver.minor >= 7
    THEN MapV(Put(EmptyMap, "include_type_name", Val("true")))
    ELSE Nil

\* esVersionParams: the query parameters, Nil for none
esVersionParams(ver) ==
    IF ver.major = 6 /\ ver.minor = 7
    THEN MapV(Put(EmptyMap, "include_type_name", Val("true")))
    ELSE Nil

----------------------------------------------------------------------------
(* ESLoader *)

Request(method, path, params, b) ==
    [method |-> method, path |-> path, params |-> params, body |-> b]

\* strings.Contains
Contains(str, sub) ==
    \E i \in 1..(Len(str) - Len(sub) + 1) : SubSeq(str, i, i + Len(sub) - 1) = sub

StatusOK == 200
StatusMultipleChoices == 300

\* ESLoader.templateInfo once builder.template gave a template
templateInfoName(t, cfg) == IF cfg.JSON.Enabled THEN cfg.JSON.Name ELSE GetName(t)

\* the early return taken when overwrite is enabled instead of disabled
skipInstallInverted(found, cfg) == found /\ cfg.Overwrite

\* the condition under which LoadIndexTemplate / LoadLegacyTemplate return early
skipInstall(found, cfg) == found /\ ~cfg.Overwrite

\* the existence check of the legacy path reading the resource the PUT writes
legacyExistsRequestOfTemplate(name) == Request("GET", "/_template/" \o name, Nil, Nil)

\* legacyTemplateExists deciding on the status alone
legacyTemplateExistsByStatus(hasClient, resp, name) ==
    IF ~hasClient THEN FALSE
    ELSE resp.status = StatusOK

\* the request legacyTemplateExists issues, and what it returns on the answer
legacyExistsRequest(name) == Request("GET", "/_cat/templates/" \o name, Nil, Nil)
legacyTemplateExists(hasClient, resp, name) ==
    IF ~hasClient THEN FALSE
    ELSE resp.status = StatusOK /\ Contains(resp.body, name)

\* the request indexTemplateExists issues, and what it returns on the answer
indexExistsRequest(name) == Request("GET", indexTemplatePath \o name, Nil, Nil)
indexTemplateExists(hasClient, resp, name) ==
    IF ~hasClient THEN FALSE
    ELSE resp.status = StatusOK

\* loadLegacyTemplate up to its call of loadTemplate: the PUT it makes
loadLegacyTemplate(ver, name, tpl) ==
    Request("PUT", "/_template/" \o name, esVersionParams(ver), Delete(tpl, priorityKey))

\* loadIndexTemplate up to its call of loadTemplate: the PUT it makes
loadIndexTemplate(name, tpl) ==
    LET t0 == Delete(tpl, orderKey)
        present == {k \in {settingsKey, mappingsKey, aliasesKey} : Has(t0, k)}
        templateInfo == [k \in present |-> t0[k]]
        rest == [k \in DOMAIN t0 \ present |-> t0[k]]
    IN  Request("PUT", indexTemplatePath \o name, Nil,
                Put(rest, "template", MapV(templateInfo)))

\* loadTemplate rejecting status 300 as well
loadTemplateFrom300(resp) ==
    IF resp.err THEN Err("couldn't load template")
    ELSE IF resp.status >= StatusMultipleChoices THEN Err("couldn't load json")
    ELSE Ok(Nil)

\* loadTemplate on the client's answer to the PUT
loadTemplate(resp) ==
    IF resp.err THEN Err("couldn't load template")
    ELSE IF resp.status > StatusMultipleChoices THEN Err("couldn't load json")
    ELSE Ok(Nil)

----------------------------------------------------------------------------
(* the arguments callers pass and the answers clients give *)

Bytes(str) == [tag |-> "bytes", data |-> str]
Pending == [tag |-> "pending"]
ESClient == [tag |-> "client"]

JSONOff == [Enabled |-> FALSE, Path |-> "", Name |-> ""]
JSONOn(path) == [Enabled |-> TRUE, Path |-> path, Name |-> "json-template"]

GoodYaml == Bytes("- key: beat\n  fields:\n  - name: host\n    type: keyword")

\* where the body comes from: config.JSON, config.Fields and the fields argument
Sources ==
    { [JSON |-> JSONOff, Fields |-> "", fields |-> Nil],
      [JSON |-> JSONOff, Fields |-> "", fields |-> GoodYaml],
      [JSON |-> JSONOff, Fields |-> "", fields |-> Bytes("")],
      [JSON |-> JSONOff, Fields |-> "", fields |-> Bytes("{")],
      [JSON |-> JSONOff, Fields |-> "fields.yml", fields |-> GoodYaml],
      [JSON |-> JSONOff, Fields |-> "broken.yml", fields |-> GoodYaml],
      [JSON |-> JSONOn("legacy.json"), Fields |-> "fields.yml", fields |-> GoodYaml],
      [JSON |-> JSONOn("mixed.json"), Fields |-> "", fields |-> Nil],
      [JSON |-> JSONOn("index.json"), Fields |-> "", fields |-> Nil],
      [JSON |-> JSONOn("malformed.json"), Fields |-> "", fields |-> GoodYaml],
      [JSON |-> JSONOn("missing.json"), Fields |-> "", fields |-> Nil] }

PlainSource == [JSON |-> JSONOff, Fields |-> "", fields |-> GoodYaml]

\* config.Name and config.Pattern
Namings ==
    { [Name |-> "", Pattern |-> ""],
      [Name |-> "custom", Pattern |-> "custom-*"],
      [Name |-> "%{[agent.name]}-tmpl", Pattern |-> ""],
      [Name |-> "%{[agent.name", Pattern |-> ""],
      [Name |-> "logs", Pattern |-> "%{[nokey]}-*"] }

DefaultNaming == [Name |-> "", Pattern |-> ""]

\* config.ComposedOf, DataStream, Settings and AppendFields
NoExtras ==
    [ ComposedOf |-> <<>>, DataStream |-> Nil, AppendFields |-> <<>>,
      Settings |-> [Index |-> Nil, Source |-> Nil] ]
AllExtras ==
    [ ComposedOf |-> <<"%{[agent.name]}-mappings", "settings">>,
      DataStream |-> MapV(Put(EmptyMap, "timestamp_field", Val("@timestamp"))),
      AppendFields |-> <<Field("extra", "keyword")>>,
      Settings |-> [ Index |-> MapV(Put(EmptyMap, "number_of_shards", Num(1))),
                     Source |-> MapV(Put(EmptyMap, "enabled", Val("false"))) ] ]
BadExtras ==
    [ ComposedOf |-> <<"%{[nokey]}">>, DataStream |-> Nil,
      AppendFields |-> <<Field("host", "keyword")>>,
      Settings |-> [Index |-> Nil, Source |-> Nil] ]

\* DefaultConfig with the fields a caller sets
Config(enabled, naming, src, overwrite, kind, extras) ==
    [ Enabled |-> enabled, Name |-> naming.Name, Pattern |-> naming.Pattern,
      Fields |-> src.Fields, JSON |-> src.JSON, AppendFields |-> extras.AppendFields,
      Overwrite |-> overwrite, Settings |-> extras.Settings, Order |-> 1,
      Priority |-> 150, Kind |-> kind, ComposedOf |-> extras.ComposedOf,
      DataStream |-> extras.DataStream ]

GoodInfo == [Version |-> "7.9.0", IndexPrefix |-> "beat"]
BadInfo == [Version |-> "seven", IndexPrefix |-> "beat"]

Args(cfg, inf, fs) == [config |-> cfg, info |-> inf, fields |-> fs, migration |-> FALSE]

\* the calls made: every source with default naming, every naming with the
\* plain source, and the failing constructions
CallArgs ==
    { Args(Config(TRUE, DefaultNaming, src, ow, k, ex), GoodInfo, src.fields) :
        src \in Sources, ow \in BOOLEAN, k \in Kinds, ex \in {NoExtras, AllExtras} }
    \cup
    { Args(Config(TRUE, nm, PlainSource, ow, k, NoExtras), GoodInfo, PlainSource.fields) :
        nm \in Namings, ow \in BOOLEAN, k \in Kinds }
    \cup
    { Args(Config(TRUE, DefaultNaming, PlainSource, ow, KindLegacy, BadExtras), inf,
           PlainSource.fields) : ow \in BOOLEAN, inf \in {GoodInfo, BadInfo} }
    \cup
    { Args(Config(FALSE, DefaultNaming, src, ow, k, AllExtras), GoodInfo, src.fields) :
        src \in {PlainSource, [JSON |-> JSONOn("legacy.json"), Fields |-> "fields.yml",
                                fields |-> GoodYaml]},
        ow \in BOOLEAN, k \in Kinds }

Response(status, b, err) == [status |-> status, body |-> b, err |-> err]

\* answers to the existence check for a template name
GetResponses(name) ==
    { Response(st, b, FALSE) : st \in {200, 201, 404},
                               b \in {"[]", "my-" \o name \o " [*] 1"} }
    \cup { Response(0, "", TRUE), Response(200, name, TRUE) }

\* answers to the PUT
PutResponses ==
    { Response(st, "{}", FALSE) : st \in {200, 201, 300, 301, 400} }
    \cup { Response(0, "", TRUE), Response(200, "", TRUE) }

ESOps == {"LoadIndexTemplate", "LoadLegacyTemplate"}
Ops == ESOps \cup {"Load"}

----------------------------------------------------------------------------
(* the loaders, step by step *)

\* no compile running, nothing appended to the package-level slices, no answer given
NoCompile(c) == [pc |-> "idle", tid |-> 0, t |-> Nil, fs |-> <<>>, all |-> <<>>, i |-> 0,
                 properties |-> EmptyMap, out |-> Pending]
CompileIds == {1, 2}
NoCompiles ==
    /\ dynamicTemplates = <<>> /\ defaultFields = <<>>
    /\ compile = [c \in CompileIds |-> NoCompile(c)]
    /\ probes = {}

NoCall ==
    /\ op = "none" /\ config = Nil /\ info = Nil /\ fields = Nil
    /\ tmpl = Nil /\ templateName = "" /\ exists = FALSE /\ body = Nil
    /\ requests = <<>> /\ responses = <<>> /\ writes = <<>> /\ result = Pending

\* NewESLoader / NewFileLoader on a client reporting some version
Init ==
    /\ client = ESClient
    /\ clientVersion \in Versions
    /\ supportsDataStream = VersionLessThanOrEqual(minESVersionIndexTemplate, clientVersion)
    /\ pc = "idle"
    /\ NoCall
    /\ NoCompiles

\* between calls the client may come to report another version
Reconnect ==
    /\ pc = "idle"
    /\ \E v \in Versions \ {clientVersion} : clientVersion' = v
    /\ UNCHANGED cvars
    /\ UNCHANGED <<client, supportsDataStream, pc, op, config, info, fields, tmpl, templateName,
                   exists, body, requests, responses, writes, result>>

\* a caller enters LoadIndexTemplate, LoadLegacyTemplate or FileLoader.Load
Call ==
    /\ pc = "idle"
    /\ \E o \in Ops, a \in CallArgs :
        /\ op' = o
        /\ config' = a.config
        /\ info' = a.info
        /\ fields' = a.fields
    /\ pc' = "templateInfo"
    /\ UNCHANGED cvars
    /\ UNCHANGED <<client, clientVersion, supportsDataStream, tmpl, templateName, exists, body,
                   requests, responses, writes, result>>

\* ESLoader.templateInfo, and the builder.template call that opens FileLoader.Load
TemplateInfo ==
    /\ pc = "templateInfo"
    /\ LET t == template(config, info, clientVersion, FALSE)
       IN  IF ~t.ok
           THEN /\ result' = t /\ pc' = "done"
                /\ UNCHANGED <<tmpl, templateName>>
           ELSE IF t.val = Nil
           THEN /\ result' = Ok(Nil) /\ pc' = "done"
                /\ UNCHANGED <<tmpl, templateName>>
           ELSE /\ tmpl' = t.val
                /\ templateName' = IF op \in ESOps THEN templateInfoName(t.val, config)
                                   ELSE templateName
                /\ pc' = IF op \in ESOps THEN "exists" ELSE "build"
                /\ UNCHANGED result
    /\ UNCHANGED cvars
    /\ UNCHANGED <<client, clientVersion, supportsDataStream, op, config, info, fields, exists,
                   body, requests, responses, writes>>

\* the existence check and the skip of LoadIndexTemplate / LoadLegacyTemplate
ExistsCheck ==
    /\ pc = "exists"
    /\ \E resp \in GetResponses(templateName) :
        LET found == IF op = "LoadIndexTemplate"
                     THEN indexTemplateExists(client # Nil, resp, templateName)
                     ELSE legacyTemplateExists(client # Nil, resp, templateName)
            req == IF op = "LoadIndexTemplate"
                   THEN indexExistsRequest(templateName)
                   ELSE legacyExistsRequest(templateName)
        IN  /\ requests' = Append(requests, req)
            /\ responses' = Append(responses, resp)
            /\ exists' = found
            /\ IF skipInstall(found, config)
               THEN result' = Ok(Nil) /\ pc' = "done"
               ELSE result' = result /\ pc' = "build"
    /\ UNCHANGED cvars
    /\ UNCHANGED <<client, clientVersion, supportsDataStream, op, config, info, fields, tmpl,
                   templateName, body, writes>>

\* BuildBody without the check of buildBody's error
BuildBodyUnchecked ==
    /\ pc = "build"
    /\ LET b == buildBody(tmpl, config, fields)
       IN  /\ body' = IF b.ok THEN b.val ELSE EmptyMap
           /\ pc' = IF op \in ESOps THEN "put" ELSE "write"
           /\ result' = result
    /\ UNCHANGED cvars
    /\ UNCHANGED <<client, clientVersion, supportsDataStream, op, config, info, fields,
                   tmpl, templateName, exists, requests, responses, writes>>

\* l.builder.buildBody(template, config, fields)
BuildBody ==
    /\ pc = "build"
    /\ LET b == buildBody(tmpl, config, fields)
       IN  IF ~b.ok
           THEN /\ result' = b /\ pc' = "done" /\ body' = body
           ELSE /\ body' = b.val
                /\ pc' = IF op \in ESOps THEN "put" ELSE "write"
                /\ result' = result
    /\ UNCHANGED cvars
    /\ UNCHANGED <<client, clientVersion, supportsDataStream, op, config, info, fields, tmpl,
                   templateName, exists, requests, responses, writes>>

\* LoadTemplate writing again after a failed write
LoadTemplateRetrying ==
    /\ pc = "put"
    /\ \E resp \in PutResponses :
        LET req == IF op = "LoadIndexTemplate"
                   THEN loadIndexTemplate(templateName, body)
                   ELSE loadLegacyTemplate(clientVersion, templateName, body)
            r == loadTemplate(resp)
        IN  /\ requests' = Append(requests, req)
            /\ responses' = Append(responses, resp)
            /\ body' = req.body
            /\ result' = IF r.ok THEN Ok(Nil) ELSE result
            /\ pc' = IF r.ok THEN "done" ELSE "put"
    /\ UNCHANGED cvars
    /\ UNCHANGED <<client, clientVersion, supportsDataStream, op, config, info, fields,
                   tmpl, templateName, exists, writes>>

\* loadIndexTemplate / loadLegacyTemplate with loadTemplate, and the return
LoadTemplate ==
    /\ pc = "put"
    /\ \E resp \in PutResponses :
        LET req == IF op = "LoadIndexTemplate"
                   THEN loadIndexTemplate(templateName, body)
                   ELSE loadLegacyTemplate(clientVersion, templateName, body)
            r == loadTemplate(resp)
        IN  /\ requests' = Append(requests, req)
            /\ responses' = Append(responses, resp)
            /\ body' = req.body
            /\ result' = IF r.ok THEN Ok(Nil) ELSE Err("could not load template")
    /\ pc' = "done"
    /\ UNCHANGED cvars
    /\ UNCHANGED <<client, clientVersion, supportsDataStream, op, config, info, fields, tmpl,
                   templateName, exists, writes>>

\* l.client.Write("template", tmpl.name, str) of FileLoader.Load, and the return
FileWrite ==
    /\ pc = "write"
    /\ \E failed \in BOOLEAN :
        /\ writes' = Append(writes, [component |-> "template", name |-> tmpl.name,
                                     body |-> body])
        /\ result' = IF failed THEN Err("error printing template") ELSE Ok(Nil)
    /\ pc' = "done"
    /\ UNCHANGED cvars
    /\ UNCHANGED <<client, clientVersion, supportsDataStream, op, config, info, fields, tmpl,
                   templateName, exists, body, requests, responses>>

\* the call has returned; its arguments and locals are gone
Return ==
    /\ pc = "done"
    /\ pc' = "idle"
    /\ op' = "none" /\ config' = Nil /\ info' = Nil /\ fields' = Nil
    /\ tmpl' = Nil /\ templateName' = "" /\ exists' = FALSE /\ body' = Nil
    /\ requests' = <<>> /\ responses' = <<>> /\ writes' = <<>> /\ result' = Pending
    /\ UNCHANGED cvars
    /\ UNCHANGED <<client, clientVersion, supportsDataStream>>

Next ==
    \/ Reconnect
    \/ Call
    \/ TemplateInfo
    \/ ExistsCheck
    \/ BuildBody
    \/ LoadTemplate
    \/ FileWrite
    \/ Return

Spec == Init /\ [][Next]_vars

----------------------------------------------------------------------------
(* legacyTemplateExists and indexTemplateExists called on their own, on a   *)
(* loader whose client may be nil                                            *)

ExistsOps == {"legacyTemplateExists", "indexTemplateExists"}
ExistsNames == {"beat-7.9.0", "custom", "json-template"}

InitExists ==
    /\ client \in {Nil, ESClient}
    /\ clientVersion \in (IF client = Nil THEN {NoVersion} ELSE Versions)
    /\ supportsDataStream = VersionLessThanOrEqual(minESVersionIndexTemplate, clientVersion)
    /\ pc = "idle"
    /\ NoCall
    /\ NoCompiles

CallExists ==
    /\ pc = "idle"
    /\ \E o \in ExistsOps, name \in ExistsNames :
        /\ op' = o
        /\ templateName' = name
    /\ pc' = "probe"
    /\ UNCHANGED cvars
    /\ UNCHANGED <<client, clientVersion, supportsDataStream, config, info, fields, tmpl,
                   exists, body, requests, responses, writes, result>>

ProbeExists ==
    /\ pc = "probe"
    /\ IF client = Nil
       THEN /\ exists' = IF op = "indexTemplateExists"
                         THEN indexTemplateExists(FALSE, Nil, templateName)
                         ELSE legacyTemplateExists(FALSE, Nil, templateName)
            /\ UNCHANGED <<requests, responses>>
       ELSE \E resp \in GetResponses(templateName) :
            /\ requests' = Append(requests, IF op = "indexTemplateExists"
                                            THEN indexExistsRequest(templateName)
                                            ELSE legacyExistsRequest(templateName))
            /\ responses' = Append(responses, resp)
            /\ exists' = IF op = "indexTemplateExists"
                         THEN indexTemplateExists(TRUE, resp, templateName)
                         ELSE legacyTemplateExists(TRUE, resp, templateName)
    /\ pc' = "done"
    /\ UNCHANGED cvars
    /\ UNCHANGED <<client, clientVersion, supportsDataStream, op, config, info, fields,
                   tmpl, templateName, body, writes, result>>

NextExists ==
    \/ CallExists
    \/ ProbeExists
    \/ Return

SpecExists == InitExists /\ [][NextExists]_vars

----------------------------------------------------------------------------
(* properties of the install protocol *)

Puts == {i \in DOMAIN requests : requests[i].method = "PUT"}
Gets == {i \in DOMAIN requests : requests[i].method = "GET"}
InCall == pc # "idle"

\* C1: an install attempt of LoadIndexTemplate or LoadLegacyTemplate with
\* Overwrite=false whose existence check found the template issues no PUT
\* and returns nil.
C1_SkipExisting ==
    (InCall /\ op \in ESOps /\ exists /\ ~config.Overwrite)
        => (pc = "done" /\ result = Ok(Nil) /\ Puts = {})

C1_Witness ==
    /\ pc = "done" /\ op = "LoadLegacyTemplate" /\ exists /\ ~config.Overwrite
    /\ Len(requests) = 1

BuildAttempted ==
    /\ InCall /\ tmpl # Nil /\ pc \in {"put", "write", "done"}
    /\ op \in ESOps => ~(exists /\ ~config.Overwrite)

\* C3: when buildBody fails the call returns that error and no PUT (and no
\* Write) is issued; when the Template cannot be constructed the call returns
\* an error before any request.
C3_BuildErrorAborts ==
    /\ (BuildAttempted /\ ~buildBody(tmpl, config, fields).ok)
          => /\ pc = "done" /\ result = buildBody(tmpl, config, fields)
             /\ Puts = {} /\ writes = <<>> /\ body = Nil
    /\ (InCall /\ pc # "templateInfo" /\ ~template(config, info, clientVersion, FALSE).ok)
          => /\ pc = "done" /\ ~result.ok
             /\ requests = <<>> /\ writes = <<>>

C3_Witness ==
    /\ pc = "done" /\ op = "LoadIndexTemplate" /\ tmpl # Nil /\ config.JSON.Enabled
    /\ Len(requests) = 1 /\ result = Err("could not unmarshal json template")

C3_WitnessNew ==
    /\ pc = "done" /\ op \in ESOps /\ config.Enabled /\ tmpl = Nil
    /\ result = Err("error creating template instance")

\* C4: the write fails exactly when the client returns an error or a status
\* greater than 300, and then the install call returns an error; every other
\* answer makes it return nil.
C4_WriteFailsAbove300 ==
    (pc = "done" /\ op \in ESOps /\ Puts # {})
        => LET resp == responses[Len(responses)]
           IN  ~result.ok <=> (resp.err \/ resp.status > 300)

C4_Witness ==
    /\ pc = "done" /\ op \in ESOps /\ Puts # {}
    /\ responses[Len(responses)] = Response(300, "{}", FALSE) /\ result = Ok(Nil)

\* C5: one install attempt issues at most one existence check and at most one
\* PUT, the PUT after the check, and a failed PUT ends the call with an error.
C5_NoRetries ==
    /\ Cardinality(Gets) <= 1
    /\ Cardinality(Puts) <= 1
    /\ \A i \in Puts : i = 2 /\ 1 \in Gets
    /\ \A i \in Puts : ~loadTemplate(responses[i]).ok => (pc = "done" /\ ~result.ok)

C5_Witness ==
    /\ pc = "done" /\ Cardinality(Puts) = 1 /\ Cardinality(Gets) = 1
    /\ responses[2].status = 400 /\ ~result.ok

C7_SameResourceReadAndWrite ==
    (InCall /\ op \in ESOps)
        => \A i \in DOMAIN requests :
             requests[i].path =
                (IF op = "LoadIndexTemplate" THEN "/_index_template/" ELSE "/_template/")
                    \o templateName

\* C7 amended: the PUT addresses /_template/{name} (legacy) or
\* /_index_template/{name} (index); the existence check addresses
\* /_cat/templates/{name} (legacy) or /_index_template/{name} (index); both
\* use the one resolved name, config.JSON.Name under a JSON override and the
\* template's name otherwise.
C7_PathsPerMethod ==
    (InCall /\ op \in ESOps)
        => /\ \A i \in Puts :
                requests[i].path =
                    (IF op = "LoadIndexTemplate" THEN "/_index_template/" ELSE "/_template/")
                        \o templateName
           /\ \A i \in Gets :
                requests[i].path =
                    (IF op = "LoadIndexTemplate" THEN "/_index_template/"
                     ELSE "/_cat/templates/") \o templateName
           /\ tmpl # Nil =>
                templateName = (IF config.JSON.Enabled THEN config.JSON.Name ELSE tmpl.name)

C7_Witness ==
    /\ pc = "done" /\ op = "LoadLegacyTemplate" /\ Len(requests) = 2
    /\ requests[1].path = "/_cat/templates/beat-tmpl"
    /\ requests[2].path = "/_template/beat-tmpl"

IncludeTypeName == MapV(Put(EmptyMap, "include_type_name", Val("true")))
Is67(ver) == ver.major = 6 /\ ver.minor = 7

\* C8 as claimed: every PUT, of either load method, carries
\* include_type_name=true iff the cluster version is 6.7.x.
C8_ParamOnEveryInstall ==
    \A i \in Puts : (requests[i].params = IncludeTypeName) <=> Is67(clientVersion)

\* C8 amended: the PUT of LoadLegacyTemplate carries include_type_name=true
\* iff the cluster version is 6.7.x and no parameter otherwise; the PUT of
\* LoadIndexTemplate carries no parameter at any version.
C8_ParamOnLegacyInstall ==
    \A i \in Puts :
        IF op = "LoadLegacyTemplate"
        THEN requests[i].params = (IF Is67(clientVersion) THEN IncludeTypeName ELSE Nil)
        ELSE requests[i].params = Nil

C8_Witness ==
    /\ pc = "done" /\ op = "LoadLegacyTemplate" /\ clientVersion = Ver(6, 7, 2)
    /\ Puts # {} /\ requests[2].params = IncludeTypeName

----------------------------------------------------------------------------
(* properties of the documents sent *)

\* the documents handed to the client (PUT bodies) or to the file writer
FinalDocs ==
    {requests[i].body : i \in Puts} \cup {writes[i].body : i \in DOMAIN writes}

\* the document buildBody had before its switch on config.Kind
CompiledDoc == sourceBody(tmpl, config, fields).val

\* C9: for a config with Kind=Legacy the final document has none of
\* priority, composed_of, data_stream; its settings and mappings are at top
\* level with their values, and it has no template envelope the compiled
\* document did not have.
C9_LegacyShape ==
    (InCall /\ config.Kind = KindLegacy)
        => \A d \in FinalDocs :
             /\ DOMAIN d \cap {priorityKey, composedOfKey, dataStreamKey} = {}
             /\ \A k \in {settingsKey, mappingsKey} \cap DOMAIN CompiledDoc :
                    Has(d, k) /\ d[k] = CompiledDoc[k]
             /\ Has(d, "template") =>
                    (Has(CompiledDoc, "template") /\ d["template"] = CompiledDoc["template"])

\* C10: for a config with Kind Index or Component the final document has no
\* order key, and every one of settings, mappings, aliases of the compiled
\* document is, with its value, under the template key and not at top level.
C10_NestedShape ==
    (InCall /\ config.Kind \in {KindIndex, KindComponent})
        => \A d \in FinalDocs :
             /\ ~Has(d, orderKey)
             /\ \A k \in {settingsKey, mappingsKey, aliasesKey} \cap DOMAIN CompiledDoc :
                    /\ ~Has(d, k)
                    /\ Has(d, "template") /\ d["template"].tag = "map"
                    /\ Has(d["template"].m, k) /\ d["template"].m[k] = CompiledDoc[k]

\* C15: for every cluster version the final Kind=Component document has none
\* of order, the pattern key (index_patterns, or for major < 6 the singular
\* template key holding the pattern), priority, composed_of, data_stream, and
\* every one of settings, mappings, aliases of the compiled document is, with
\* its value, under template.
C15_ComponentShape ==
    (InCall /\ config.Kind = KindComponent)
        => \A d \in FinalDocs :
             /\ DOMAIN d \cap {orderKey, indexPatternsKey, priorityKey, composedOfKey,
                               dataStreamKey} = {}
             /\ ~(Has(d, "template") /\ d["template"] = Val(GetPattern(tmpl)))
             /\ \A k \in {settingsKey, mappingsKey, aliasesKey} \cap DOMAIN CompiledDoc :
                    /\ ~Has(d, k)
                    /\ Has(d, "template") /\ d["template"].tag = "map"
                    /\ Has(d["template"].m, k) /\ d["template"].m[k] = CompiledDoc[k]


----------------------------------------------------------------------------
(* Template.load statement by statement. dynamicTemplates and defaultFields *)
(* are package-level; the mutex load takes is the one embedded in its own   *)
(* Template value.                                                           *)

lvars == <<client, clientVersion, supportsDataStream, pc, op, config, info, fields,
           tmpl, templateName, exists, body, requests, responses, writes, result>>

TemplateIds == {1, 2}

\* user index settings that set query.default_field themselves
OverrideExtras ==
    [ ComposedOf |-> <<>>, DataStream |-> Nil, AppendFields |-> <<>>,
      Settings |-> [ Index |-> MapV(Put(EmptyMap, "query",
                                        MapV(Put(EmptyMap, "default_field",
                                                 ListV(<<"message">>))))),
                     Source |-> Nil ] ]

CompileVersions == Versions \cup {Ver(2, 4, 0), Ver(6, 1, 0), Ver(8, 0, 0)}

FieldTrees ==
    { <<>>,
      <<Field("host", "keyword")>>,
      <<Field("message", "text"), Field("labels", "object")>>,
      <<Field("labels", "object"), Field("host", "keyword"), Field("tags", "object")>> }

\* a Template value built by New, and the field tree handed to load
CompileInput(tid, v, ex, fs) ==
    [ tid |-> tid,
      t |-> New("7.9.0", "beat", v,
                Config(TRUE, DefaultNaming, PlainSource, FALSE, KindLegacy, ex), FALSE).val,
      fs |-> fs ]

CompileInputs ==
    { CompileInput(tid, v, ex, fs) :
        tid \in TemplateIds, v \in CompileVersions,
        ex \in {NoExtras, AllExtras, OverrideExtras}, fs \in FieldTrees }

ConcurrentInputs ==
    { CompileInput(tid, v, NoExtras, fs) :
        tid \in TemplateIds, v \in {Ver(6, 8, 0), Ver(7, 9, 0)},
        fs \in FieldTrees \ {<<Field("host", "keyword")>>} }

\* no loader is involved in a compile
InitCompile ==
    /\ client = Nil
    /\ clientVersion = NoVersion
    /\ supportsDataStream = FALSE
    /\ pc = "idle"
    /\ NoCall
    /\ NoCompiles

\* between t.Lock() and t.Unlock()
Locked(c) == compile[c].pc \in {"resetDynamicTemplates", "resetDefaultFields", "concat", "process"}

\* a caller enters load on Template value in.tid
CompileStart(c, inputs) ==
    /\ compile[c].pc = "idle"
    /\ \E in \in inputs :
         compile' = [compile EXCEPT ![c] = [NoCompile(c) EXCEPT !.pc = "lock", !.tid = in.tid,
                                                                !.t = in.t, !.fs = in.fs]]
    /\ UNCHANGED <<dynamicTemplates, defaultFields, probes>>
    /\ UNCHANGED lvars

\* t.Lock(): waits while another load holds the mutex of the same Template value
LoadLock(c) ==
    /\ compile[c].pc = "lock"
    /\ \A d \in CompileIds \ {c} : ~(Locked(d) /\ compile[d].tid = compile[c].tid)
    /\ compile' = [compile EXCEPT ![c].pc = "resetDynamicTemplates"]
    /\ UNCHANGED <<dynamicTemplates, defaultFields, probes>>
    /\ UNCHANGED lvars

\* a load that leaves dynamicTemplates as the last compile left it
LoadKeepDynamicTemplates(c) ==
    /\ compile[c].pc = "resetDynamicTemplates"
    /\ compile' = [compile EXCEPT ![c].pc = "resetDefaultFields"]
    /\ UNCHANGED <<dynamicTemplates, defaultFields, probes>>
    /\ UNCHANGED lvars

\* dynamicTemplates = nil
LoadResetDynamicTemplates(c) ==
    /\ compile[c].pc = "resetDynamicTemplates"
    /\ dynamicTemplates' = <<>>
    /\ compile' = [compile EXCEPT ![c].pc = "resetDefaultFields"]
    /\ UNCHANGED <<defaultFields, probes>>
    /\ UNCHANGED lvars

\* defaultFields = nil
LoadResetDefaultFields(c) ==
    /\ compile[c].pc = "resetDefaultFields"
    /\ defaultFields' = <<>>
    /\ compile' = [compile EXCEPT ![c].pc = "concat"]
    /\ UNCHANGED <<dynamicTemplates, probes>>
    /\ UNCHANGED lvars

\* the AppendFields branch: ConcatFields, and the error return with its deferred Unlock
LoadConcat(c) ==
    /\ compile[c].pc = "concat"
    /\ LET cur == compile[c]
           all == IF Len(cur.t.config.AppendFields) > 0
                  THEN ConcatFields(cur.fs, cur.t.config.AppendFields) ELSE Ok(cur.fs)
       IN  compile' = [compile EXCEPT ![c] =
                          IF all.ok THEN [cur EXCEPT !.pc = "process", !.all = all.val, !.i = 1]
                          ELSE [cur EXCEPT !.pc = "done", !.out = all]]
    /\ UNCHANGED <<dynamicTemplates, defaultFields, probes>>
    /\ UNCHANGED lvars

\* processor.Process reaches the next field
ProcessField(c) ==
    /\ compile[c].pc = "process"
    /\ compile[c].i <= Len(compile[c].all)
    /\ LET cur == compile[c]
           r == processField(cur.all[cur.i],
                             [properties |-> cur.properties,
                              dynamicTemplates |-> dynamicTemplates,
                              defaultFields |-> defaultFields])
       IN  /\ dynamicTemplates' = r.dynamicTemplates
           /\ defaultFields' = r.defaultFields
           /\ compile' = [compile EXCEPT ![c] = [cur EXCEPT !.properties = r.properties,
                                                            !.i = cur.i + 1]]
    /\ UNCHANGED probes
    /\ UNCHANGED lvars

\* output := t.Generate(properties, dynamicTemplates), then the deferred Unlock
LoadGenerate(c) ==
    /\ compile[c].pc = "process"
    /\ compile[c].i > Len(compile[c].all)
    /\ compile' = [compile EXCEPT ![c] =
                      [compile[c] EXCEPT !.pc = "done",
                                         !.out = Ok(Generate(compile[c].t, compile[c].properties,
                                                             dynamicTemplates, defaultFields))]]
    /\ UNCHANGED <<dynamicTemplates, defaultFields, probes>>
    /\ UNCHANGED lvars

\* the caller takes the document or the error
CompileReturn(c) ==
    /\ compile[c].pc = "done"
    /\ compile' = [compile EXCEPT ![c] = NoCompile(c)]
    /\ UNCHANGED <<dynamicTemplates, defaultFields, probes>>
    /\ UNCHANGED lvars

\* one goroutine compiling again and again
NextSequential ==
    \/ CompileStart(1, CompileInputs)
    \/ LoadLock(1)
    \/ LoadResetDynamicTemplates(1)
    \/ LoadResetDefaultFields(1)
    \/ LoadConcat(1)
    \/ ProcessField(1)
    \/ LoadGenerate(1)
    \/ CompileReturn(1)

SpecSequential == InitCompile /\ [][NextSequential]_vars

\* one goroutine per compile id
NextConcurrent ==
    \E c \in CompileIds :
        \/ CompileStart(c, ConcurrentInputs)
        \/ LoadLock(c)
        \/ LoadResetDynamicTemplates(c)
        \/ LoadResetDefaultFields(c)
        \/ LoadConcat(c)
        \/ ProcessField(c)
        \/ LoadGenerate(c)
        \/ CompileReturn(c)

SpecConcurrent == InitCompile /\ [][NextConcurrent]_vars

\* what load returns for a compile's Template and field tree when nothing else runs
Alone(c) == load(compile[c].t, compile[c].fs)

\* C11: concurrent compiles on two different Template values do not interfere:
\* each finished compile returns the document it would have returned alone.
C11_NoInterference ==
    \A c \in CompileIds, d \in CompileIds :
        (compile[c].pc = "done" /\ compile[d].pc # "idle" /\ compile[c].tid # compile[d].tid)
            => compile[c].out = Alone(c)

\* compiles on one and the same Template value are serialised by its mutex
SameTemplateSerialised ==
    \A c \in CompileIds, d \in CompileIds :
        (c # d /\ compile[c].tid = compile[d].tid) => ~(Locked(c) /\ Locked(d))


----------------------------------------------------------------------------
(* the documents of compiles that run one after the other *)

\* load has returned a document
Compiled(c) == compile[c].pc = "done" /\ compile[c].out.ok

\* settings.index of the document
IndexSettings(c) == compile[c].out.val[settingsKey].m["index"].m

\* the version the Template was built for
ClusterVersion(c) == compile[c].t.esVersion

\* C12: with no user-supplied index settings, the compiled index settings
\* contain number_of_routing_shards if and only if 6.1.0 <= version < 7.0.0.
C12_RoutingShardsBoundary ==
    \A c \in CompileIds :
        (Compiled(c) /\ compile[c].t.config.Settings.Index = Nil)
            => (Has(IndexSettings(c), "number_of_routing_shards")
                  <=> (ClusterVersion(c).major = 6 /\ ClusterVersion(c).minor >= 1))

C12_Witness ==
    \E c \in CompileIds :
        /\ Compiled(c) /\ compile[c].t.config.Settings.Index = Nil
        /\ ClusterVersion(c) = Ver(6, 1, 0)
        /\ IndexSettings(c)["number_of_routing_shards"] = Num(defaultNumberOfRoutingShards)

\* the boundary from below and from above
C12_Edges ==
    \A c \in CompileIds :
        (Compiled(c) /\ compile[c].t.config.Settings.Index = Nil)
            => /\ ClusterVersion(c) \in {Ver(6, 0, 1), Ver(7, 0, 0), Ver(5, 6, 0)}
                   => ~Has(IndexSettings(c), "number_of_routing_shards")
               /\ ClusterVersion(c) \in {Ver(6, 1, 0), Ver(6, 8, 0)}
                   => Has(IndexSettings(c), "number_of_routing_shards")


\* the fields whose names Process collects as default fields, in field order
IsDefaultField(f) == f.type \in {"keyword", "text"}
Collected(c) ==
    LET fs == SelectSeq(compile[c].all, IsDefaultField)
    IN  [i \in 1..Len(fs) |-> fs[i].name]

HasDefaultField(c) ==
    Has(IndexSettings(c), "query") /\ Has(IndexSettings(c)["query"].m, "default_field")
DefaultField(c) == IndexSettings(c)["query"].m["default_field"]

\* the user's index settings set query.default_field themselves
UserDefaultField(c) ==
    LET ix == compile[c].t.config.Settings.Index
    IN  ix # Nil /\ Has(ix.m, "query") /\ Has(ix.m["query"].m, "default_field")

\* C13 as stated: for major >= 7 the compiled index settings hold a
\* query.default_field list that is the default fields collected during the
\* compile followed by "fields.*" as last element; for major 6 and lower there
\* is no query.default_field.
C13_DefaultFieldBoundary ==
    \A c \in CompileIds :
        Compiled(c) =>
            IF ClusterVersion(c).major >= 7
            THEN HasDefaultField(c)
                 /\ DefaultField(c) = ListV(Append(Collected(c), "fields.*"))
            ELSE ~HasDefaultField(c)

\* C13, amended: the boundary holds whenever the user's index settings do not
\* set query.default_field; when they do, the user's value is the one in the
\* document, at every version.
C13_DefaultFieldUnlessUserSet ==
    \A c \in CompileIds :
        Compiled(c) =>
            IF UserDefaultField(c)
            THEN HasDefaultField(c)
                 /\ DefaultField(c) = compile[c].t.config.Settings.Index.m["query"].m["default_field"]
            ELSE IF ClusterVersion(c).major >= 7
            THEN HasDefaultField(c)
                 /\ DefaultField(c) = ListV(Append(Collected(c), "fields.*"))
            ELSE ~HasDefaultField(c)

C13_Witness ==
    \E c \in CompileIds :
        /\ Compiled(c) /\ ~UserDefaultField(c)
        /\ ClusterVersion(c) = Ver(7, 0, 0)
        /\ DefaultField(c) = ListV(<<"host", "extra", "fields.*">>)


\* the mappings of the document under the root its version uses
MappingBody(c) ==
    LET mp == compile[c].out.val[mappingsKey].m
        major == ClusterVersion(c).major
    IN  IF major < 6 THEN mp["_default_"].m
        ELSE IF major = 6 THEN mp["doc"].m
        ELSE mp

\* the rules Process derives from the fields, in field order
IsObjectField(f) == f.type = "object"
FieldRules(c) ==
    LET fs == SelectSeq(compile[c].all, IsObjectField)
    IN  [i \in 1..Len(fs) |->
            MapV(Put(EmptyMap, fs[i].name,
                     MapV(Put(EmptyMap, "path_match", Val(fs[i].name \o ".*")))))]

\* C16: compiles run in sequence, on the same or on fresh Template values,
\* return for one field tree, config and version always the same document; its
\* dynamic_templates are the field-derived rules in field order followed by
\* the catch-all strings_as_keyword rule as last element, with nothing carried
\* over from an earlier compile; an empty field tree gives empty properties
\* and the catch-all rule alone.
C16_DeterministicRuleOrder ==
    \A c \in CompileIds :
        Compiled(c) =>
            /\ compile[c].out = Alone(c)
            /\ MappingBody(c)["dynamic_templates"] =
                  ListV(Append(FieldRules(c), buildDynTmpl(ClusterVersion(c))))
            /\ compile[c].all = <<>> =>
                  /\ MappingBody(c)["properties"] = MapV(EmptyMap)
                  /\ MappingBody(c)["dynamic_templates"] =
                        ListV(<<buildDynTmpl(ClusterVersion(c))>>)

\* a compile of a tree with two object fields has returned their two rules
\* in field order, the catch-all after them
C16_Witness ==
    \E c \in CompileIds :
        /\ Compiled(c)
        /\ compile[c].all = <<Field("labels", "object"), Field("host", "keyword"),
                              Field("tags", "object")>>
        /\ Len(MappingBody(c)["dynamic_templates"].l) = 3
        /\ Has(MappingBody(c)["dynamic_templates"].l[1].m, "labels")
        /\ Has(MappingBody(c)["dynamic_templates"].l[2].m, "tags")
        /\ MappingBody(c)["dynamic_templates"].l[3] = buildDynTmpl(ClusterVersion(c))

----------------------------------------------------------------------------
(* SupportsDataStream and SupportsIndexTemplates, called at any time on an  *)
(* ESLoader and on a FileLoader whose clients report clientVersion. Over    *)
(* Versions the two declarations of minESVersionIndexTemplate (7.9.0 and    *)
(* 7.8.0) give the same answers.                                             *)

Probe(method, answer) == [method |-> method, answer |-> answer]

\* an ESLoader that asks its client again on every call
ESSupportsDataStreamRecomputed ==
    /\ pc = "idle"
    /\ probes' = probes \cup
          { Probe("ESLoader.SupportsDataStream",
                  VersionLessThanOrEqual(minESVersionIndexTemplate, clientVersion)) }
    /\ UNCHANGED <<dynamicTemplates, defaultFields, compile>>
    /\ UNCHANGED lvars

\* ESLoader.SupportsDataStream: the field set by NewESLoader
ESSupportsDataStream ==
    /\ pc = "idle"
    /\ probes' = probes \cup {Probe("ESLoader.SupportsDataStream", supportsDataStream)}
    /\ UNCHANGED <<dynamicTemplates, defaultFields, compile>>
    /\ UNCHANGED lvars

\* FileLoader.SupportsDataStream: l.client.GetVersion() compared on every call
FileSupportsDataStream ==
    /\ pc = "idle"
    /\ probes' = probes \cup
          { Probe("FileLoader.SupportsDataStream",
                  VersionLessThanOrEqual(minESVersionIndexTemplate, clientVersion)) }
    /\ UNCHANGED <<dynamicTemplates, defaultFields, compile>>
    /\ UNCHANGED lvars

\* FileLoader.SupportsIndexTemplates: the same comparison
FileSupportsIndexTemplates ==
    /\ pc = "idle"
    /\ probes' = probes \cup
          { Probe("FileLoader.SupportsIndexTemplates",
                  VersionLessThanOrEqual(minESVersionIndexTemplate, clientVersion)) }
    /\ UNCHANGED <<dynamicTemplates, defaultFields, compile>>
    /\ UNCHANGED lvars

NextCapability ==
    \/ Reconnect
    \/ ESSupportsDataStream
    \/ FileSupportsDataStream
    \/ FileSupportsIndexTemplates

SpecCapability == Init /\ [][NextCapability]_vars

DataStreamMethods == {"ESLoader.SupportsDataStream", "FileLoader.SupportsDataStream"}

\* C14 as stated: every call to SupportsDataStream on the same loader returns
\* the same boolean for the lifetime of the loader, even if the client later
\* reports a different version.
C14_Memoized ==
    \A p \in probes, q \in probes :
        (p.method \in DataStreamMethods /\ p.method = q.method) => p.answer = q.answer

\* C14, amended: the calls on an ESLoader all return the same boolean whatever
\* the client reports later; a call on a FileLoader returns what the version
\* reported at the time of the call supports.
C14_ESLoaderMemoized ==
    /\ [](\A p \in probes, q \in probes :
             (p.method = "ESLoader.SupportsDataStream" /\ p.method = q.method)
                 => p.answer = q.answer)
    /\ [][\A p \in probes' \ probes :
             p.method \in {"FileLoader.SupportsDataStream", "FileLoader.SupportsIndexTemplates"}
                 => p.answer = (~VersionLessThan(clientVersion, minESVersionIndexTemplate))]_vars

\* the ESLoader has answered and its client now reports a version that would
\* give the other answer
C14_Witness ==
    /\ \E p \in probes : p.method = "ESLoader.SupportsDataStream"
    /\ \A p \in probes : p.method = "ESLoader.SupportsDataStream"
          => p.answer # (~VersionLessThan(clientVersion, minESVersionIndexTemplate))


----------------------------------------------------------------------------
(* buildBody called on its own. The tree holds two buildBody: one applies   *)
(* the switch on config.Kind before it returns, the other returns the body  *)
(* of the chosen source.                                                     *)

BuildOps == {"buildBody", "buildBodyPlain"}

\* the arguments for which builder.template returns a Template
BuildArgs(v) ==
    {a \in CallArgs : LET t == template(a.config, a.info, v, a.migration) IN t.ok /\ t.val # Nil}

\* a loader has its Template and calls buildBody
CallBuildBody ==
    /\ pc = "idle"
    /\ \E o \in BuildOps, a \in BuildArgs(clientVersion) :
        /\ op' = o
        /\ config' = a.config
        /\ info' = a.info
        /\ fields' = a.fields
        /\ tmpl' = template(a.config, a.info, clientVersion, a.migration).val
    /\ pc' = "buildBody"
    /\ UNCHANGED cvars
    /\ UNCHANGED <<client, clientVersion, supportsDataStream, templateName, exists, body,
                   requests, responses, writes, result>>

\* buildBody returns the body or the error
ReturnBuildBody ==
    /\ pc = "buildBody"
    /\ LET b == IF op = "buildBody" THEN buildBody(tmpl, config, fields)
                ELSE buildBodyPlain(tmpl, config, fields)
       IN  /\ result' = b
           /\ body' = IF b.ok THEN b.val ELSE Nil
    /\ pc' = "done"
    /\ UNCHANGED cvars
    /\ UNCHANGED <<client, clientVersion, supportsDataStream, op, config, info, fields, tmpl,
                   templateName, exists, requests, responses, writes>>

NextBuild ==
    \/ CallBuildBody
    \/ ReturnBuildBody
    \/ Return

SpecBuild == Init /\ [][NextBuild]_vars

Built == pc = "done" /\ op \in BuildOps

\* what buildBody returned is src: its error, or its body, normalized for
\* config.Kind or as it is
ReturnedFrom(src, normalized) ==
    IF src.ok
    THEN result.ok /\ body = (IF normalized THEN normalizeKind(src.val, config.Kind) ELSE src.val)
    ELSE result = src

\* the four sources in their order of precedence
Precedence(normalized) ==
    /\ config.JSON.Enabled => ReturnedFrom(buildBodyFromJSON(config), normalized)
    /\ (~config.JSON.Enabled /\ config.Fields # "")
          => ReturnedFrom(buildBodyFromFile(tmpl, config), normalized)
    /\ (~config.JSON.Enabled /\ config.Fields = "" /\ fields = Nil)
          => ReturnedFrom(buildMinimalTemplate(tmpl), normalized)
    /\ (~config.JSON.Enabled /\ config.Fields = "" /\ fields # Nil)
          => ReturnedFrom(buildBodyFromFields(tmpl, fields), normalized)

\* C17 as stated: buildBody takes the JSON override when config.JSON.Enabled,
\* otherwise the fields file when config.Fields is not empty, otherwise the
\* minimal document when fields is nil, otherwise the field bytes; and whichever
\* source is used, the body it returns has gone through the per-Kind
\* normalization.
C17_PrecedenceThenNormalization ==
    Built => Precedence(TRUE)

\* C17, amended: both buildBody choose the source in that order; the one with
\* the switch on config.Kind returns the normalized body, the other returns
\* the body of the source as it is.
C17_PrecedencePerBuilder ==
    Built => Precedence(op = "buildBody")

\* the JSON override won over a fields file and field bytes, and the switch
\* changed the body it gave
C17_Witness ==
    /\ Built /\ op = "buildBody"
    /\ config.JSON.Enabled /\ config.Fields # "" /\ fields # Nil
    /\ result.ok
    /\ body = normalizeKind(buildBodyFromJSON(config).val, config.Kind)
    /\ body # buildBodyFromJSON(config).val

====
